---- MODULE Spec2Model ----
(***************************************************************************)
(* Model of bot.py: a Telegram task tracker.                               *)
(*                                                                         *)
(*   - TaskManager: the per-user task store and its JSON file.             *)
(*   - The creation dialogue (the ConversationHandler add_task_conv).      *)
(*   - The pending numeric action (awaiting_complete / awaiting_delete     *)
(*     in context.user_data) resolved by handle_task_action.               *)
(*                                                                         *)
(* Strings of the source that are not ASCII are written with ASCII         *)
(* stand-ins: the three priority labels are "High", "Medium", "Low", the   *)
(* reminder labels "in1h", "in3h", "tomorrow", "inweek", "noreminder".     *)
(* Python's None is the string "None", which no input alphabet contains.   *)
(* A timestamp is a count of hours; strftime renders it as a string.       *)
(***************************************************************************)
EXTENDS Integers, Sequences, FiniteSets, TLC

VARIABLES
    tasks,      \* TaskManager.tasks: dict user_id -> [tasks |-> list of task dicts]
    file,       \* tasks_data.json: [state |-> "absent" | "valid" | "corrupt", data |-> JSON object]
    conv,       \* ConversationHandler state of add_task_conv, per user (END: no dialogue open)
    user_data,  \* context.user_data, per user
    recv,       \* history: what the open dialogue of a user has received so far
    msg,        \* the last update processed (or the last direct call of the TaskManager)
    prev,       \* history: the state before the last update or call
    out         \* effects of the last processed update or call, in program order

vars == <<tasks, file, conv, user_data, recv, msg, prev, out>>

\* ------------------------------------------------------------------ bounds

\* Most tasks the store may hold, all users together (guard of the creating steps).
MaxTasks == 2

\* ------------------------------------------------------------- constants

CHOOSING_ACTION == 0
ADD_TASK == 1
SET_PRIORITY == 2
SET_REMINDER == 3
\* ConversationHandler.END: the handler's return value that closes the dialogue.
END == -1

None == "None"

PRIORITIES == <<"High", "Medium", "Low">>

PrioritySet == {PRIORITIES[i] : i \in 1..Len(PRIORITIES)}

\* ----------------------------------------------------------------- inputs
\* Each specification below varies one kind of input and keeps the others to
\* one value, so that every run stays small: Spec the priority chosen,
\* DraftSpec the task text, ReminderSpec the answer to the reminder prompt,
\* FaultSpec the outcome of the file write, UsersSpec the user, and StoreSpec
\* calls the TaskManager directly for two users. A user talks to the bot in
\* one chat (a private chat), so a user has one dialogue.

Users == {1, 2}

\* Clock readings datetime.now() may return (hours).
Times == {0}

\* The one user who chats with the bot in the runs that vary the messages.
OneUser == {1}

\* Free-text messages a user may send: in answer to the text prompt, to the
\* priority prompt, to the reminder prompt, and outside a dialogue.
TaskTexts == {"A", "1"}
PriorityInputs == PrioritySet \cup {"A", "1"}
ReminderInputs == {"in1h", "1"}
ActionInputs == {"A", "1", "2", "3"}

\* The one text, and the one answer to the reminder prompt, of the runs that
\* vary the other.
OneText == {"A"}
TwoPriorities == {"High", "Low", "A"}
OnePriority == {"High", "A"}
OneReminder == {"1"}

\* Texts and reminders the direct callers of the TaskManager pass.
StoreTexts == {"A"}
StoreReminders == {None}

\* Outcome of the open()/json.dump of _save_tasks: written, open() raised (the
\* file keeps its content), json.dump raised after open() truncated the file.
WriteOutcomes == {"ok", "open_failed", "write_failed"}
Written == {"ok"}

\* -------------------------------------------------------------- utilities

EmptyDict == [k \in {} |-> None]

\* d[k] = v for a Python dict d.
DictSet(d, k, v) == [x \in (DOMAIN d) \cup {k} |-> IF x = k THEN v ELSE d[x]]

\* datetime.strftime('%Y-%m-%d %H:%M:%S'), on a count of hours.
strftime(t) == "T+" \o ToString(t) \o "h"

\* str(k) of json.dump for an int key, and int(k) of _load_tasks.
KeyStr(u) == ToString(u)

KeyInt(k) == CHOOSE u \in Users : KeyStr(u) = k

\* int(text): the messages that parse, and their values.
IntLiterals == {"1", "2", "3"}

ParsesAsInt(text) == text \in IntLiterals

int(text) == CHOOSE n \in 1..3 : ToString(n) = text

Event(ev, what, u, id, ret) == [ev |-> ev, what |-> what, u |-> u, id |-> id, ret |-> ret]

Reply(u, what) == Event("reply", what, u, 0, "")

\* ------------------------------------------------------------ TaskManager

\* json.dump(self.tasks, f): int keys become strings.
json_dump(m) == [k \in {KeyStr(u) : u \in DOMAIN m} |-> m[KeyInt(k)]]

\* Faulty variant: the write is put off.
save_tasks_Deferred(m, f, w) == f

\* TaskManager._save_tasks: the whole mapping replaces the file; a failure is
\* logged and swallowed.
save_tasks(m, f, w) ==
    CASE w = "ok" -> [state |-> "valid", data |-> json_dump(m)]
      [] w = "open_failed" -> f
      [] OTHER -> [state |-> "corrupt", data |-> EmptyDict]

\* TaskManager._load_tasks: a missing or unreadable file gives {}.
load_tasks(f) ==
    IF f.state = "valid"
    THEN [u \in {KeyInt(k) : k \in DOMAIN f.data} |-> f.data[KeyStr(u)]]
    ELSE EmptyDict

\* TaskManager.get_user_tasks: the mapping after the lazy materialization.
Materialize(m, u) == IF u \in DOMAIN m THEN m ELSE DictSet(m, u, [tasks |-> <<>>])

get_user_tasks(m, u) == [m |-> Materialize(m, u), ret |-> Materialize(m, u)[u].tasks]

\* Faulty variant: an id past the largest id of the list.
NextId_PastLargest(list) ==
    IF list = <<>> THEN 1
    ELSE (CHOOSE n \in {list[i].id : i \in DOMAIN list} :
              \A k \in DOMAIN list : list[k].id <= n) + 1

\* The id add_task gives: len(self.tasks[user_id]['tasks']) + 1.
NextId(list) == Len(list) + 1

\* TaskManager.add_task: the new mapping, the created task, and that it saves.
TaskManager_add_task(m, u, text, priority, reminder, now) ==
    LET m1 == Materialize(m, u)
        task == [id |-> NextId(m1[u].tasks),
                 text |-> text,
                 priority |-> priority,
                 created_at |-> strftime(now),
                 completed |-> FALSE,
                 reminder |-> reminder]
    IN [m |-> DictSet(m1, u, [tasks |-> Append(m1[u].tasks, task)]),
        ret |-> task,
        saved |-> TRUE]

\* Index of the first task of list with the given id, 0 when there is none
\* (the for loop of complete_task).
RECURSIVE FirstWithId(_, _, _)
FirstWithId(list, id, i) ==
    IF i > Len(list) THEN 0
    ELSE IF list[i].id = id THEN i
    ELSE FirstWithId(list, id, i + 1)

\* Faulty variant: complete_task toggles the flag.
MarkCompleted_Toggle(task) == [task EXCEPT !.completed = ~@]

\* What complete_task does to the task it found.
MarkCompleted(task) == [task EXCEPT !.completed = TRUE]

\* TaskManager.complete_task.
TaskManager_complete_task(m, u, id) ==
    LET m1 == Materialize(m, u)
        list == m1[u].tasks
        i == FirstWithId(list, id, 1)
    IN IF i # 0
       THEN [m |-> DictSet(m1, u, [tasks |-> [list EXCEPT ![i] = MarkCompleted(list[i])]]),
             ret |-> TRUE, saved |-> TRUE]
       ELSE [m |-> m1, ret |-> FALSE, saved |-> FALSE]

\* The list comprehension of delete_task.
KeepOthers(list, id) == SelectSeq(list, LAMBDA t : t.id # id)

\* Faulty variant: delete_task writes the file whether or not the list shrank.
TaskManager_delete_task_AlwaysSaves(m, u, id) ==
    LET m1 == Materialize(m, u)
        list == m1[u].tasks
        kept == SelectSeq(list, LAMBDA t : t.id # id)
    IN [m |-> DictSet(m1, u, [tasks |-> kept]), ret |-> Len(kept) < Len(list), saved |-> TRUE]

\* TaskManager.delete_task.
TaskManager_delete_task(m, u, id) ==
    LET m1 == Materialize(m, u)
        list == m1[u].tasks
        kept == KeepOthers(list, id)
        shrank == Len(kept) < Len(list)
    IN [m |-> DictSet(m1, u, [tasks |-> kept]), ret |-> shrank, saved |-> shrank]

\* Faulty variant: the loop does not look at the completed flag.
IsActive_Always(task) == TRUE

\* The test of the loop of get_tasks_by_priority.
IsActive(task) == ~task.completed

\* The loop of get_tasks_by_priority over list[i..], filling categorized.
RECURSIVE Categorize(_, _, _)
Categorize(list, i, categorized) ==
    IF i > Len(list) THEN categorized
    ELSE LET task == list[i]
             priority == task.priority
         IN Categorize(list, i + 1,
                IF IsActive(task) /\ priority \in DOMAIN categorized
                THEN [categorized EXCEPT ![priority] = Append(@, task)]
                ELSE categorized)

\* TaskManager.get_tasks_by_priority.
get_tasks_by_priority(m, u) ==
    [m |-> Materialize(m, u),
     ret |-> Categorize(Materialize(m, u)[u].tasks, 1, [p \in PrioritySet |-> <<>>])]

\* The list of a user as a reader of the mapping sees it.
TaskList(m, u) == IF u \in DOMAIN m THEN m[u].tasks ELSE <<>>

\* Number of tasks in the whole store.
RECURSIVE CountTasks(_, _)
CountTasks(m, us) ==
    IF us = {} THEN 0
    ELSE LET u == CHOOSE x \in us : TRUE
         IN Len(m[u].tasks) + CountTasks(m, us \ {u})

TotalTasks(m) == CountTasks(m, DOMAIN m)

\* ------------------------------------------------------------------- state

NoData == [task_text |-> None, task_priority |-> None,
           awaiting_complete |-> FALSE, awaiting_delete |-> FALSE]

NoRecv == [text |-> None, priority |-> None]

Init ==
    /\ file = [state |-> "absent", data |-> EmptyDict]
    /\ tasks = load_tasks([state |-> "absent", data |-> EmptyDict])
    /\ conv = [u \in Users |-> END]
    /\ user_data = [u \in Users |-> NoData]
    /\ recv = [u \in Users |-> NoRecv]
    /\ msg = [u |-> 0, kind |-> "none", body |-> ""]
    /\ prev = [tasks |-> EmptyDict,
               file |-> [state |-> "absent", data |-> EmptyDict],
               conv |-> [u \in Users |-> END],
               user_data |-> [u \in Users |-> NoData],
               recv |-> [u \in Users |-> NoRecv]]
    /\ out = <<>>

\* Every step records the state it starts from.
Remember ==
    prev' = [tasks |-> tasks, file |-> file, conv |-> conv, user_data |-> user_data,
             recv |-> recv]

\* The update of a command, of a free text; a direct call of the TaskManager.
Command(u, cmd) == [u |-> u, kind |-> "command", body |-> cmd]

Text(u, text) == [u |-> u, kind |-> "text", body |-> text]

Call(u, what) == [u |-> u, kind |-> "call", body |-> what]

\* The effects of one TaskManager call r named what: the call, then its save.
CallEvents(what, u, id, r, w) ==
    <<Event("call", what, u, id, IF r.ret = FALSE THEN "False" ELSE "True")>>
    \o (IF r.saved THEN <<Event("save", w, u, 0, "")>> ELSE <<>>)

\* The file after the call r.
FileAfter(r, w) == IF r.saved THEN save_tasks(r.m, file, w) ELSE file

\* ------------------------------------------- the TaskManager, called directly

StoreAdd(u, text, priority, reminder, now, w) ==
    LET r == TaskManager_add_task(tasks, u, text, priority, reminder, now)
    IN /\ TotalTasks(tasks) < MaxTasks
       /\ tasks' = r.m
       /\ file' = FileAfter(r, w)
       /\ out' = <<Event("call", "add_task", u, r.ret.id, "True"), Event("save", w, u, 0, "")>>
       /\ UNCHANGED <<conv, user_data, recv>>
       /\ msg' = Call(u, "add_task")
       /\ Remember

StoreComplete(u, id, w) ==
    LET r == TaskManager_complete_task(tasks, u, id)
    IN /\ tasks' = r.m
       /\ file' = FileAfter(r, w)
       /\ out' = CallEvents("complete_task", u, id, r, w)
       /\ UNCHANGED <<conv, user_data, recv>>
       /\ msg' = Call(u, "complete_task")
       /\ Remember

StoreDelete(u, id, w) ==
    LET r == TaskManager_delete_task(tasks, u, id)
    IN /\ tasks' = r.m
       /\ file' = FileAfter(r, w)
       /\ out' = CallEvents("delete_task", u, id, r, w)
       /\ UNCHANGED <<conv, user_data, recv>>
       /\ msg' = Call(u, "delete_task")
       /\ Remember

StoreGet(u) ==
    /\ tasks' = get_user_tasks(tasks, u).m
    /\ out' = <<Event("call", "get_user_tasks", u, 0, "True")>>
    /\ UNCHANGED <<file, conv, user_data, recv>>
    /\ msg' = Call(u, "get_user_tasks")
    /\ Remember

StoreQuery(u) ==
    /\ tasks' = get_tasks_by_priority(tasks, u).m
    /\ out' = <<Event("call", "get_tasks_by_priority", u, 0, "True")>>
    /\ UNCHANGED <<file, conv, user_data, recv>>
    /\ msg' = Call(u, "get_tasks_by_priority")
    /\ Remember

StoreNext ==
    \/ \E u \in Users, text \in StoreTexts, p \in PrioritySet,
          rem \in StoreReminders, now \in Times, w \in Written :
            StoreAdd(u, text, p, rem, now, w)
    \/ \E u \in Users, id \in 1..(MaxTasks + 1), w \in Written : StoreComplete(u, id, w)
    \/ \E u \in Users, id \in 1..(MaxTasks + 1), w \in Written : StoreDelete(u, id, w)
    \/ \E u \in Users : StoreGet(u)
    \/ \E u \in Users : StoreQuery(u)

StoreSpec == Init /\ [][StoreNext]_vars


\* ------------------------------------------------ dispatch (main, lines 441-464)

\* A dialogue of add_task_conv is open for u.
InDialogue(u) == conv[u] # END

\* The handler Application picks for a command: the first of the one group
\* whose check_update accepts it. add_task_conv (allow_reentry left False)
\* tries its entry point only when no dialogue is open, and in a dialogue only
\* the state's text handler and the fallback /cancel; a command it refuses
\* goes on to the handlers registered after it.
CommandHandlerFor(u, cmd) ==
    CASE cmd = "start" -> "start"
      [] cmd = "help" -> "help_command"
      [] cmd = "add" -> IF InDialogue(u) THEN "unhandled" ELSE "add_task_start"
      [] cmd = "list" -> "list_tasks"
      [] cmd = "complete" -> "complete_task"
      [] cmd = "delete" -> "delete_task"
      [] cmd = "cancel" -> "cancel"

\* Faulty variant: a pending action takes the text before the dialogue does.
TextHandlerFor_FlagFirst(u) ==
    IF user_data[u].awaiting_complete \/ user_data[u].awaiting_delete
    THEN "handle_task_action"
    ELSE CASE conv[u] = ADD_TASK -> "add_task_text"
           [] conv[u] = SET_PRIORITY -> "set_priority"
           [] conv[u] = SET_REMINDER -> "set_reminder"
           [] OTHER -> "handle_task_action"

\* The handler for a free text: the open dialogue's state handler, else
\* handle_task_action.
TextHandlerFor(u) ==
    CASE conv[u] = ADD_TASK -> "add_task_text"
      [] conv[u] = SET_PRIORITY -> "set_priority"
      [] conv[u] = SET_REMINDER -> "set_reminder"
      [] OTHER -> "handle_task_action"

Update(u, handler) == Event("update", handler, u, 0, "")

\* ---------------------------------------------------------------- handlers

start(u) ==
    /\ CommandHandlerFor(u, "start") = "start"
    /\ out' = <<Update(u, "start"), Reply(u, "welcome")>>
    /\ UNCHANGED <<tasks, file, conv, user_data, recv>>
    /\ msg' = Command(u, "start")
    /\ Remember

help_command(u) ==
    /\ CommandHandlerFor(u, "help") = "help_command"
    /\ out' = <<Update(u, "help_command"), Reply(u, "help")>>
    /\ UNCHANGED <<tasks, file, conv, user_data, recv>>
    /\ msg' = Command(u, "help")
    /\ Remember

\* /add with no dialogue open: the entry point.
add_task_start(u) ==
    /\ CommandHandlerFor(u, "add") = "add_task_start"
    /\ conv' = [conv EXCEPT ![u] = ADD_TASK]
    /\ recv' = [recv EXCEPT ![u] = NoRecv]
    /\ out' = <<Update(u, "add_task_start"), Reply(u, "prompt_text")>>
    /\ UNCHANGED <<tasks, file, user_data>>
    /\ msg' = Command(u, "add")
    /\ Remember

\* /add in an open dialogue: no handler accepts the update.
unhandled(u) ==
    /\ CommandHandlerFor(u, "add") = "unhandled"
    /\ out' = <<Update(u, "unhandled")>>
    /\ UNCHANGED <<tasks, file, conv, user_data, recv>>
    /\ msg' = Command(u, "add")
    /\ Remember

\* The draft after add_task_text stored the message.
StoreText(data, text) == [data EXCEPT !.task_text = text]

add_task_text(u, text) ==
    /\ TextHandlerFor(u) = "add_task_text"
    /\ user_data' = [user_data EXCEPT ![u] = StoreText(@, text)]
    /\ conv' = [conv EXCEPT ![u] = SET_PRIORITY]
    /\ recv' = [recv EXCEPT ![u].text = text]
    /\ out' = <<Update(u, "add_task_text"), Reply(u, "prompt_priority")>>
    /\ UNCHANGED <<tasks, file>>
    /\ msg' = Text(u, text)
    /\ Remember

\* Faulty variant: set_priority stores the default priority, not the chosen one.
StorePriority_Default(data, priority) == [data EXCEPT !.task_priority = "Medium"]

\* The draft after set_priority accepted the message.
StorePriority(data, priority) == [data EXCEPT !.task_priority = priority]

set_priority(u, priority) ==
    /\ TextHandlerFor(u) = "set_priority"
    /\ IF priority \notin PrioritySet
       THEN /\ out' = <<Update(u, "set_priority"), Reply(u, "bad_priority")>>
            /\ UNCHANGED <<conv, user_data, recv>>
       ELSE /\ user_data' = [user_data EXCEPT ![u] = StorePriority(@, priority)]
            /\ conv' = [conv EXCEPT ![u] = SET_REMINDER]
            /\ recv' = [recv EXCEPT ![u].priority = priority]
            /\ out' = <<Update(u, "set_priority"), Reply(u, "prompt_reminder")>>
    /\ UNCHANGED <<tasks, file>>
    /\ msg' = Text(u, priority)
    /\ Remember

\* Faulty variant: clear() leaves the draft in place.
user_data_clear_KeepsDraft(data) ==
    [data EXCEPT !.awaiting_complete = FALSE, !.awaiting_delete = FALSE]

\* context.user_data.clear(): the draft and the flags are gone.
user_data_clear(data) == NoData

\* Faulty variant: a text that is no offset label sets a reminder for now.
ReminderTime_AnyText(reminder_text, now) ==
    CASE reminder_text = "in1h" -> strftime(now + 1)
      [] reminder_text = "in3h" -> strftime(now + 3)
      [] reminder_text = "tomorrow" -> strftime(now + 24)
      [] reminder_text = "inweek" -> strftime(now + 168)
      [] OTHER -> strftime(now)

\* reminder_time of set_reminder.
ReminderTime(reminder_text, now) ==
    CASE reminder_text = "in1h" -> strftime(now + 1)
      [] reminder_text = "in3h" -> strftime(now + 3)
      [] reminder_text = "tomorrow" -> strftime(now + 24)
      [] reminder_text = "inweek" -> strftime(now + 168)
      [] OTHER -> None

\* Faulty variant: set_reminder leaves the priority to add_task's default.
DraftPriority_Default(data) == "Medium"

\* The text and the priority set_reminder passes to add_task.
DraftText(data) == data.task_text

DraftPriority(data) == data.task_priority

set_reminder(u, reminder_text, now, w) ==
    /\ TextHandlerFor(u) = "set_reminder"
    /\ TotalTasks(tasks) < MaxTasks
    /\ IF DraftText(user_data[u]) = None \/ DraftPriority(user_data[u]) = None
       THEN \* KeyError: the error handler answers, nothing else happens
            /\ out' = <<Update(u, "set_reminder"), Reply(u, "error")>>
            /\ UNCHANGED <<tasks, file, conv, user_data, recv>>
       ELSE LET r == TaskManager_add_task(tasks, u, DraftText(user_data[u]),
                         DraftPriority(user_data[u]), ReminderTime(reminder_text, now), now)
            IN /\ tasks' = r.m
               /\ file' = FileAfter(r, w)
               /\ out' = <<Update(u, "set_reminder"),
                           Event("call", "add_task", u, r.ret.id, "True"),
                           Event("save", w, u, 0, ""),
                           Reply(u, "created")>>
               /\ user_data' = [user_data EXCEPT ![u] = user_data_clear(@)]
               /\ recv' = [recv EXCEPT ![u] = NoRecv]
               /\ conv' = [conv EXCEPT ![u] = END]
    /\ msg' = Text(u, reminder_text)
    /\ Remember

\* total_tasks of list_tasks.
RECURSIVE SumLen(_, _)
SumLen(categorized, i) ==
    IF i > Len(PRIORITIES) THEN 0
    ELSE Len(categorized[PRIORITIES[i]]) + SumLen(categorized, i + 1)

list_tasks(u) ==
    LET r == get_tasks_by_priority(tasks, u)
    IN /\ CommandHandlerFor(u, "list") = "list_tasks"
       /\ tasks' = r.m
       /\ out' = <<Update(u, "list_tasks"),
                   Reply(u, IF SumLen(r.ret, 1) = 0 THEN "empty_list" ELSE "list")>>
       /\ UNCHANGED <<file, conv, user_data, recv>>
       /\ msg' = Command(u, "list")
       /\ Remember

complete_task(u) ==
    LET r == get_user_tasks(tasks, u)
        active_tasks == SelectSeq(r.ret, LAMBDA t : ~t.completed)
    IN /\ CommandHandlerFor(u, "complete") = "complete_task"
       /\ tasks' = r.m
       /\ IF active_tasks = <<>>
          THEN /\ out' = <<Update(u, "complete_task"), Reply(u, "no_active")>>
               /\ UNCHANGED user_data
          ELSE /\ out' = <<Update(u, "complete_task"), Reply(u, "choose_complete"),
                           Reply(u, "send_number")>>
               /\ user_data' = [user_data EXCEPT ![u].awaiting_complete = TRUE]
       /\ UNCHANGED <<file, conv, recv>>
       /\ msg' = Command(u, "complete")
       /\ Remember

delete_task(u) ==
    LET r == get_user_tasks(tasks, u)
    IN /\ CommandHandlerFor(u, "delete") = "delete_task"
       /\ tasks' = r.m
       /\ IF r.ret = <<>>
          THEN /\ out' = <<Update(u, "delete_task"), Reply(u, "no_tasks")>>
               /\ UNCHANGED user_data
          ELSE /\ out' = <<Update(u, "delete_task"), Reply(u, "choose_delete"),
                           Reply(u, "send_number")>>
               /\ user_data' = [user_data EXCEPT ![u].awaiting_delete = TRUE]
       /\ UNCHANGED <<file, conv, recv>>
       /\ msg' = Command(u, "delete")
       /\ Remember

\* Faulty variant: resolving the completion drops the pending deletion too.
PopComplete_ClearsBoth(data, found) ==
    [data EXCEPT !.awaiting_complete = FALSE, !.awaiting_delete = FALSE]

\* Faulty variant: the completion flag is cleared only when the task was found.
PopComplete_OnlyIfFound(data, found) ==
    IF found THEN [data EXCEPT !.awaiting_complete = FALSE] ELSE data

\* The flags after handle_task_action resolved the completion, the deletion.
PopComplete(data, found) == [data EXCEPT !.awaiting_complete = FALSE]

\* Faulty variant: the deletion flag outlives its resolution.
PopDelete_Keeps(data, found) == data

PopDelete(data, found) == [data EXCEPT !.awaiting_delete = FALSE]

\* The flags after the except branch of handle_task_action: it returns before
\* either pop.
AfterValueError(data) == data

handle_task_action(u, text, w) ==
    /\ TextHandlerFor(u) = "handle_task_action"
    /\ IF ~ParsesAsInt(text)
       THEN /\ out' = <<Update(u, "handle_task_action"), Reply(u, "bad_number")>>
            /\ user_data' = [user_data EXCEPT ![u] = AfterValueError(@)]
            /\ UNCHANGED <<tasks, file>>
       ELSE IF user_data[u].awaiting_complete
       THEN LET r == TaskManager_complete_task(tasks, u, int(text))
            IN /\ tasks' = r.m
               /\ file' = FileAfter(r, w)
               /\ out' = <<Update(u, "handle_task_action")>>
                         \o CallEvents("complete_task", u, int(text), r, w)
                         \o <<Reply(u, IF r.ret THEN "completed" ELSE "not_found")>>
               /\ user_data' = [user_data EXCEPT ![u] = PopComplete(@, r.ret)]
       ELSE IF user_data[u].awaiting_delete
       THEN LET r == TaskManager_delete_task(tasks, u, int(text))
            IN /\ tasks' = r.m
               /\ file' = FileAfter(r, w)
               /\ out' = <<Update(u, "handle_task_action")>>
                         \o CallEvents("delete_task", u, int(text), r, w)
                         \o <<Reply(u, IF r.ret THEN "deleted" ELSE "not_found")>>
               /\ user_data' = [user_data EXCEPT ![u] = PopDelete(@, r.ret)]
       ELSE /\ out' = <<Update(u, "handle_task_action")>>
            /\ UNCHANGED <<tasks, file, user_data>>
    /\ UNCHANGED <<conv, recv>>
    /\ msg' = Text(u, text)
    /\ Remember

\* /cancel: the fallback of an open dialogue, and the plain command handler.
cancel(u) ==
    /\ CommandHandlerFor(u, "cancel") = "cancel"
    /\ user_data' = [user_data EXCEPT ![u] = user_data_clear(@)]
    /\ recv' = [recv EXCEPT ![u] = NoRecv]
    /\ conv' = [conv EXCEPT ![u] = END]
    /\ out' = <<Update(u, "cancel"), Reply(u, "cancelled")>>
    /\ UNCHANGED <<tasks, file>>
    /\ msg' = Command(u, "cancel")
    /\ Remember

BotNext(users, texts, priorities, reminders, writes) ==
    \/ \E u \in users : start(u)
    \/ \E u \in users : help_command(u)
    \/ \E u \in users : add_task_start(u)
    \/ \E u \in users : unhandled(u)
    \/ \E u \in users, text \in texts : add_task_text(u, text)
    \/ \E u \in users, text \in priorities : set_priority(u, text)
    \/ \E u \in users, text \in reminders, now \in Times, w \in writes :
          set_reminder(u, text, now, w)
    \/ \E u \in users : list_tasks(u)
    \/ \E u \in users : complete_task(u)
    \/ \E u \in users : delete_task(u)
    \/ \E u \in users, text \in ActionInputs, w \in writes :
          handle_task_action(u, text, w)
    \/ \E u \in users : cancel(u)

\* The bot, its user varying the priority they choose.
Next == BotNext(OneUser, OneText, PriorityInputs, OneReminder, Written)

Spec == Init /\ [][Next]_vars

\* The bot, its user varying the task text.
DraftNext == BotNext(OneUser, TaskTexts, TwoPriorities, OneReminder, Written)

DraftSpec == Init /\ [][DraftNext]_vars

\* The bot, its user varying the answer to the reminder prompt.
ReminderNext == BotNext(OneUser, OneText, OnePriority, ReminderInputs, Written)

ReminderSpec == Init /\ [][ReminderNext]_vars

\* The bot, the writes of the data file failing or not.
FaultNext == BotNext(OneUser, OneText, OnePriority, OneReminder, WriteOutcomes)

FaultSpec == Init /\ [][FaultNext]_vars

\* The bot and two users.
UsersNext == BotNext(Users, OneText, OnePriority, OneReminder, Written)

UsersSpec == Init /\ [][UsersNext]_vars

\* ------------------------------------------------------ reading the history

\* The list of user u before and after the last step.
OldList(u) == TaskList(prev.tasks, u)

NewList(u) == TaskList(tasks, u)

\* The positions of out that are calls of the TaskManager method what.
CallsOf(what) == {i \in DOMAIN out : out[i].ev = "call" /\ out[i].what = what}

\* The positions of out that are writes of the data file.
Saves == {i \in DOMAIN out : out[i].ev = "save"}

\* The ids of a list, in order.
Ids(list) == [i \in DOMAIN list |-> list[i].id]

IdSet(list) == {list[i].id : i \in DOMAIN list}

\* a is b with some elements left out.
RECURSIVE IsSubSeq(_, _)
IsSubSeq(a, b) ==
    IF a = <<>> THEN TRUE
    ELSE IF b = <<>> THEN FALSE
    ELSE IF Head(a) = Head(b) THEN IsSubSeq(Tail(a), Tail(b))
    ELSE IsSubSeq(a, Tail(b))

\* list without its first task of the given id.
RemoveFirst(list, id) ==
    LET i == FirstWithId(list, id, 1)
    IN IF i = 0 THEN list ELSE SubSeq(list, 1, i - 1) \o SubSeq(list, i + 1, Len(list))

\* ------------------------------------------------------------------ claims

\* C1: add_task gives the new task the id (number of tasks currently in the
\* user's list) + 1 and appends it, whatever ids were deleted before.
C1_IdIsCountPlusOne ==
    \A i \in CallsOf("add_task") :
        LET u == out[i].u
        IN /\ Len(NewList(u)) = Len(OldList(u)) + 1
           /\ SubSeq(NewList(u), 1, Len(OldList(u))) = OldList(u)
           /\ NewList(u)[Len(NewList(u))].id = Len(OldList(u)) + 1
           /\ out[i].id = Len(OldList(u)) + 1

\* C1, its case: id 1 was deleted from a list with ids 1, 2, and the task
\* created next got id 2.
C1_Witness ==
    \E i \in CallsOf("add_task") :
        /\ Ids(OldList(out[i].u)) = <<2>>
        /\ Ids(NewList(out[i].u)) = <<2, 2>>

\* C2: no two tasks of one user's list have the same id.
C2_UniqueIds ==
    \A u \in DOMAIN tasks :
        \A i, j \in DOMAIN tasks[u].tasks :
            i # j => tasks[u].tasks[i].id # tasks[u].tasks[j].id

\* C3: delete_task removes at most one task, the first with the id, leaves the
\* others as they were and in order, and succeeds exactly when the list shrank.
C3_DeleteRemovesFirstMatch ==
    \A i \in CallsOf("delete_task") :
        LET u == out[i].u
        IN /\ NewList(u) = RemoveFirst(OldList(u), out[i].id)
           /\ (out[i].ret = "True") <=> (Len(NewList(u)) < Len(OldList(u)))

\* The calls of complete_task and delete_task with an id no task of the user
\* carried.
NotFoundCalls ==
    {i \in CallsOf("complete_task") \cup CallsOf("delete_task") :
        out[i].id \notin IdSet(OldList(out[i].u))}

\* C4 as claimed: such a call returns not-found, leaves the in-memory mapping
\* exactly as it was and writes nothing.
C4_NotFoundLeavesMapping ==
    \A i \in NotFoundCalls :
        /\ out[i].ret = "False"
        /\ tasks = prev.tasks
        /\ Saves = {} /\ file = prev.file

\* C4, amended: such a call returns not-found, leaves every user's task list
\* as it was, adds to the mapping at most the empty entry of the user it was
\* called for, and writes nothing.
C4_NotFoundLeavesLists ==
    \A i \in NotFoundCalls :
        /\ out[i].ret = "False"
        /\ \A v \in Users : NewList(v) = OldList(v)
        /\ DOMAIN tasks = DOMAIN prev.tasks \cup {out[i].u}
        /\ Saves = {} /\ file = prev.file

\* C4, its case: a not-found call for a user with no entry yet, in a store
\* that holds another user's tasks.
C4_Witness ==
    \E i \in NotFoundCalls :
        /\ out[i].u \notin DOMAIN prev.tasks
        /\ out[i].u \in DOMAIN tasks
        /\ \E v \in Users : OldList(v) # <<>>

\* C5: a completed task stays completed for as long as it is in the list,
\* whatever is processed, and complete_task on an id whose task is already
\* completed returns success and leaves it completed.
C5_CompletionMonotonic ==
    \A u \in Users :
        /\ IF \E i \in CallsOf("delete_task") : out[i].u = u
           THEN IsSubSeq(NewList(u), OldList(u))
           ELSE /\ Len(NewList(u)) >= Len(OldList(u))
                /\ \A k \in DOMAIN OldList(u) :
                       OldList(u)[k].completed => NewList(u)[k].completed
        /\ \A i \in CallsOf("complete_task") :
               LET k == FirstWithId(OldList(u), out[i].id, 1)
               IN (out[i].u = u /\ k # 0 /\ OldList(u)[k].completed)
                      => (out[i].ret = "True" /\ NewList(u)[k].completed)

\* C5, its case: complete_task called on the id of a task already completed.
C5_Witness ==
    \E i \in CallsOf("complete_task") :
        LET k == FirstWithId(OldList(out[i].u), out[i].id, 1)
        IN /\ k # 0
           /\ OldList(out[i].u)[k].completed
           /\ NewList(out[i].u)[k].completed
           /\ out[i].ret = "True"

\* C6: get_tasks_by_priority gives the three buckets High, Medium, Low, each
\* holding exactly the user's tasks that are not completed and have that
\* priority, in list order; no completed task is in any bucket.
C6_BucketsOfActiveTasks ==
    \A u \in Users :
        LET list == TaskList(tasks, u)
            b == get_tasks_by_priority(tasks, u).ret
        IN /\ DOMAIN b = {"High", "Medium", "Low"}
           /\ \A p \in DOMAIN b :
                  /\ IsSubSeq(b[p], list)
                  /\ \A k \in DOMAIN b[p] : b[p][k].priority = p /\ ~b[p][k].completed
                  /\ Len(b[p]) = Cardinality({k \in DOMAIN list :
                                     list[k].priority = p /\ ~list[k].completed})

\* C6, its case: a list with a completed task and a task to do of the same
\* priority.
C6_Witness ==
    \E u \in Users :
        \E i, j \in DOMAIN TaskList(tasks, u) :
            /\ TaskList(tasks, u)[i].completed
            /\ ~TaskList(tasks, u)[j].completed
            /\ TaskList(tasks, u)[i].priority = TaskList(tasks, u)[j].priority

\* The replies that confirm a committed mutation.
Confirmations ==
    {i \in DOMAIN out : out[i].ev = "reply" /\ out[i].what \in {"created", "completed", "deleted"}}

\* C7: a confirmation comes after the mutating call and after the write of the
\* file, and when that write did not fail the file holds, for the user, the
\* task list the memory holds.
C7_SavedBeforeConfirmed ==
    \A i \in Confirmations :
        \E c, j \in DOMAIN out :
            /\ c < j /\ j < i
            /\ out[c].ev = "call"
            /\ out[c].what \in {"add_task", "complete_task", "delete_task"}
            /\ out[j].ev = "save"
            /\ out[j].what = "ok" =>
                   /\ file.state = "valid"
                   /\ out[i].u \in DOMAIN load_tasks(file)
                   /\ load_tasks(file)[out[i].u].tasks = NewList(out[i].u)

\* C7, its case: a deletion confirmed after a write that did not fail, a task
\* left in the list.
C7_Witness ==
    \E i \in Confirmations :
        /\ out[i].what = "deleted"
        /\ \E j \in Saves : out[j].what = "ok"
        /\ NewList(out[i].u) # <<>>

\* C8: in an open dialogue the draft holds the text and the priority that
\* dialogue received, and the task the dialogue creates has them.
C8_TaskFromOwnDialogue ==
    /\ \A u \in Users :
           /\ conv[u] \in {SET_PRIORITY, SET_REMINDER} =>
                  (recv[u].text # None /\ user_data[u].task_text = recv[u].text)
           /\ conv[u] = SET_REMINDER =>
                  (recv[u].priority # None /\ user_data[u].task_priority = recv[u].priority)
    /\ \A i \in CallsOf("add_task") :
           LET u == out[i].u
               task == NewList(u)[Len(NewList(u))]
           IN /\ prev.recv[u].text # None /\ task.text = prev.recv[u].text
              /\ prev.recv[u].priority # None /\ task.priority = prev.recv[u].priority

\* C8, its case: a dialogue created a task whose text and priority differ
\* from those of the task an earlier dialogue created.
C8_Witness ==
    \E i \in CallsOf("add_task") :
        LET list == NewList(out[i].u)
        IN /\ Len(list) = 2
           /\ list[1].text # list[2].text
           /\ list[1].priority # list[2].priority
           /\ list[2].text = prev.recv[out[i].u].text

\* C9: /add received in an open dialogue restarts it: the state becomes
\* ADD_TASK, the draft is gone, the prompt for the text is sent.
C9_AddRestartsDialogue ==
    (msg.kind = "command" /\ msg.body = "add" /\ prev.conv[msg.u] # END) =>
        /\ conv[msg.u] = ADD_TASK
        /\ user_data[msg.u].task_text = None
        /\ user_data[msg.u].task_priority = None
        /\ \E i \in DOMAIN out : out[i] = Reply(msg.u, "prompt_text")

\* C10: a numeric text outside a dialogue, one flag set: one call of
\* complete_task or delete_task with that id, and no flag set afterwards,
\* found or not; no flag set: no call, the store and the file as they were.
C10_OneResolutionPerFlag ==
    (msg.kind = "text" /\ prev.conv[msg.u] = END /\ ParsesAsInt(msg.body)) =>
        LET u == msg.u
            c == prev.user_data[u].awaiting_complete
            d == prev.user_data[u].awaiting_delete
            calls == {i \in DOMAIN out : out[i].ev = "call"}
            OneCall(what) ==
                /\ Cardinality(calls) = 1
                /\ \A i \in calls :
                       out[i].what = what /\ out[i].u = u /\ out[i].id = int(msg.body)
                /\ ~user_data[u].awaiting_complete
                /\ ~user_data[u].awaiting_delete
        IN /\ (c /\ ~d) => OneCall("complete_task")
           /\ (d /\ ~c) => OneCall("delete_task")
           /\ (~c /\ ~d) =>
                  (calls = {} /\ Saves = {} /\ tasks = prev.tasks /\ file = prev.file)

\* C10, its case: the deletion flag alone was set, the number sent is no
\* task's id, and the flag is cleared.
C10_Witness ==
    /\ msg.kind = "text" /\ prev.conv[msg.u] = END /\ ParsesAsInt(msg.body)
    /\ prev.user_data[msg.u].awaiting_delete
    /\ ~prev.user_data[msg.u].awaiting_complete
    /\ \E i \in CallsOf("delete_task") : out[i].ret = "False"
    /\ ~user_data[msg.u].awaiting_delete

\* C11: a text that is no number, a flag set: the reply is the format error,
\* both flags and the store are as they were, nothing is called or written,
\* and the next text still goes to handle_task_action.
C11_BadNumberKeepsFlags ==
    (/\ msg.kind = "text" /\ ~ParsesAsInt(msg.body)
     /\ (prev.user_data[msg.u].awaiting_complete \/ prev.user_data[msg.u].awaiting_delete)) =>
        /\ out = <<Update(msg.u, "handle_task_action"), Reply(msg.u, "bad_number")>>
        /\ user_data[msg.u].awaiting_complete = prev.user_data[msg.u].awaiting_complete
        /\ user_data[msg.u].awaiting_delete = prev.user_data[msg.u].awaiting_delete
        /\ tasks = prev.tasks /\ file = prev.file
        /\ TextHandlerFor(msg.u) = "handle_task_action"

\* C12: no user has the completion flag and the deletion flag set at once.
C12_OnePendingAction ==
    \A u \in Users :
        ~(user_data[u].awaiting_complete /\ user_data[u].awaiting_delete)

\* C13: no user has a flag set while their dialogue is open.
C13_NoFlagInDialogue ==
    \A u \in Users :
        conv[u] # END =>
            (~user_data[u].awaiting_complete /\ ~user_data[u].awaiting_delete)

\* The last step was a free text of a user whose dialogue was open.
TextInDialogue == msg.kind = "text" /\ prev.conv[msg.u] # END

\* C14: a free text received in an open dialogue is handled by the handler of
\* the dialogue's state, never by handle_task_action: complete_task and
\* delete_task are not called, no task is completed or removed, the flags are
\* not resolved one by one.
C14_DialogueTakesText ==
    TextInDialogue =>
        LET u == msg.u
        IN /\ out[1].ev = "update"
           /\ out[1].what \in {"add_task_text", "set_priority", "set_reminder"}
           /\ CallsOf("complete_task") = {} /\ CallsOf("delete_task") = {}
           /\ Len(NewList(u)) >= Len(OldList(u))
           /\ SubSeq(NewList(u), 1, Len(OldList(u))) = OldList(u)

\* C14, its case: a number sent in an open dialogue while the completion flag
\* was set and a task was there to complete; the task is as it was.
C14_Witness ==
    /\ TextInDialogue /\ ParsesAsInt(msg.body)
    /\ prev.user_data[msg.u].awaiting_complete
    /\ int(msg.body) \in IdSet(OldList(msg.u))
    /\ out[1].what = "add_task_text"
    /\ NewList(msg.u) = OldList(msg.u)

\* The last step was a number sent outside a dialogue, both flags set.
NumberWithBothFlags ==
    /\ msg.kind = "text" /\ prev.conv[msg.u] = END /\ ParsesAsInt(msg.body)
    /\ prev.user_data[msg.u].awaiting_complete
    /\ prev.user_data[msg.u].awaiting_delete

\* C15: both flags set, a number outside a dialogue: complete_task is called
\* once with that id, delete_task is not, no task is removed, the completion
\* flag is cleared and the deletion flag stays set, the next text still going
\* to handle_task_action.
C15_CompletionFirst ==
    NumberWithBothFlags =>
        LET u == msg.u
        IN /\ Cardinality(CallsOf("complete_task")) = 1
           /\ \A i \in CallsOf("complete_task") :
                  out[i].u = u /\ out[i].id = int(msg.body)
           /\ CallsOf("delete_task") = {}
           /\ Len(NewList(u)) = Len(OldList(u))
           /\ ~user_data[u].awaiting_complete
           /\ user_data[u].awaiting_delete
           /\ TextHandlerFor(u) = "handle_task_action"

\* C15, its case: both flags set, the number is a task's id: the task is
\* completed, not deleted, and the deletion is still pending.
C15_Witness ==
    /\ NumberWithBothFlags
    /\ \E i \in CallsOf("complete_task") : out[i].ret = "True"
    /\ \E k \in DOMAIN NewList(msg.u) :
           NewList(msg.u)[k].id = int(msg.body) /\ NewList(msg.u)[k].completed
    /\ user_data[msg.u].awaiting_delete

\* The last step was a free text of a user whose dialogue was in the state.
TextIn(state) == msg.kind = "text" /\ prev.conv[msg.u] = state

\* C16: in SET_PRIORITY a text that is none of the three priorities leaves
\* the state and the draft as they were, calls and writes nothing and asks
\* again; one of the three becomes the draft's priority, the draft's text
\* kept, and the state becomes SET_REMINDER; neither touches the store.
C16_PriorityStep ==
    TextIn(SET_PRIORITY) =>
        LET u == msg.u
        IN /\ tasks = prev.tasks /\ file = prev.file
           /\ \A i \in DOMAIN out : out[i].ev \notin {"call", "save"}
           /\ user_data[u].task_text = prev.user_data[u].task_text
           /\ IF msg.body \in PrioritySet
              THEN /\ conv[u] = SET_REMINDER
                   /\ user_data[u].task_priority = msg.body
                   /\ out[Len(out)] = Reply(u, "prompt_reminder")
              ELSE /\ conv[u] = SET_PRIORITY
                   /\ user_data[u] = prev.user_data[u]
                   /\ out[Len(out)] = Reply(u, "bad_priority")

\* C16, its case: a text that is no priority was refused in SET_PRIORITY,
\* the draft's text still there, tasks in the store.
C16_Witness ==
    /\ TextIn(SET_PRIORITY) /\ msg.body \notin PrioritySet
    /\ conv[msg.u] = SET_PRIORITY
    /\ user_data[msg.u].task_text # None
    /\ OldList(msg.u) # <<>>

\* C16, its other case: Low was chosen and stored.
C16_WitnessChosen ==
    /\ TextIn(SET_PRIORITY) /\ msg.body = "Low"
    /\ conv[msg.u] = SET_REMINDER
    /\ user_data[msg.u].task_priority = "Low"

\* The four answers to the reminder prompt that set a reminder.
OffsetLabels == {"in1h", "in3h", "tomorrow", "inweek"}

\* C17: in SET_REMINDER any text ends the dialogue: add_task is called once,
\* the user's list grows by one task, not completed, with the draft's text
\* and priority, with a reminder exactly when the text is an offset label;
\* the draft is cleared and the state is END.
C17_ReminderStepCreatesOne ==
    TextIn(SET_REMINDER) =>
        LET u == msg.u
            task == NewList(u)[Len(NewList(u))]
        IN /\ Cardinality(CallsOf("add_task")) = 1
           /\ Len(NewList(u)) = Len(OldList(u)) + 1
           /\ SubSeq(NewList(u), 1, Len(OldList(u))) = OldList(u)
           /\ task.text = prev.user_data[u].task_text
           /\ task.priority = prev.user_data[u].task_priority
           /\ task.completed = FALSE
           /\ (task.reminder # None) <=> (msg.body \in OffsetLabels)
           /\ user_data[u].task_text = None /\ user_data[u].task_priority = None
           /\ conv[u] = END

\* C17, its case: a text that is no offset label ended the dialogue and the
\* task was created without a reminder, after a task with one.
C17_Witness ==
    /\ TextIn(SET_REMINDER) /\ msg.body \notin OffsetLabels
    /\ Len(NewList(msg.u)) = 2
    /\ NewList(msg.u)[1].reminder # None
    /\ NewList(msg.u)[2].reminder = None
    /\ conv[msg.u] = END

\* The last step was /cancel received in an open dialogue.
CancelInDialogue ==
    msg.kind = "command" /\ msg.body = "cancel" /\ prev.conv[msg.u] # END

\* C18: /cancel in an open dialogue: the state is END, nothing of the draft
\* is left for a later dialogue to use, the store and the file are as they
\* were, nothing is called, and the next text goes to handle_task_action.
C18_CancelDiscardsDraft ==
    CancelInDialogue =>
        LET u == msg.u
        IN /\ conv[u] = END
           /\ user_data[u].task_text = None /\ user_data[u].task_priority = None
           /\ tasks = prev.tasks /\ file = prev.file
           /\ \A i \in DOMAIN out : out[i].ev \notin {"call", "save"}
           /\ out[Len(out)] = Reply(u, "cancelled")
           /\ TextHandlerFor(u) = "handle_task_action"

\* C18, its case: /cancel in SET_REMINDER, the draft complete, a task in the
\* store.
C18_Witness ==
    /\ CancelInDialogue
    /\ prev.conv[msg.u] = SET_REMINDER
    /\ prev.user_data[msg.u].task_text # None
    /\ prev.user_data[msg.u].task_priority # None
    /\ NewList(msg.u) # <<>>
    /\ conv[msg.u] = END

\* The tasks of a list that are not completed.
ActiveOf(list) == SelectSeq(list, LAMBDA t : ~t.completed)

\* C19: a user whose completion flag is set has a task that is not completed,
\* a user whose deletion flag is set has a task; /complete and /delete leave
\* their flag as it was when there is no such task.
C19_FlagHasEligibleTask ==
    /\ \A u \in Users :
           /\ user_data[u].awaiting_complete => ActiveOf(NewList(u)) # <<>>
           /\ user_data[u].awaiting_delete => NewList(u) # <<>>
    /\ (msg.kind = "command" /\ msg.body = "complete" /\ ActiveOf(OldList(msg.u)) = <<>>) =>
           /\ user_data[msg.u] = prev.user_data[msg.u]
           /\ out[Len(out)] = Reply(msg.u, "no_active")
    /\ (msg.kind = "command" /\ msg.body = "delete" /\ OldList(msg.u) = <<>>) =>
           /\ user_data[msg.u] = prev.user_data[msg.u]
           /\ out[Len(out)] = Reply(msg.u, "no_tasks")

\* C19, its case: the deletion flag set, the user's only task was deleted and
\* the flag is cleared.
C19_Witness ==
    /\ msg.kind = "text"
    /\ prev.user_data[msg.u].awaiting_delete
    /\ Len(OldList(msg.u)) = 1
    /\ NewList(msg.u) = <<>>
    /\ \E i \in CallsOf("delete_task") : out[i].ret = "True"
    /\ ~user_data[msg.u].awaiting_delete

\* C19, its other case: /complete with tasks that are all completed sets no
\* flag.
C19_WitnessNoActive ==
    /\ msg.kind = "command" /\ msg.body = "complete"
    /\ OldList(msg.u) # <<>> /\ ActiveOf(OldList(msg.u)) = <<>>
    /\ ~user_data[msg.u].awaiting_complete

\* C20: after complete_task returned success, no task of the user with that
\* id is still to do.
C20_CompletedIdHasNoActiveTask ==
    \A i \in CallsOf("complete_task") :
        out[i].ret = "True" =>
            \A k \in DOMAIN NewList(out[i].u) :
                NewList(out[i].u)[k].id = out[i].id => NewList(out[i].u)[k].completed

====
